---------------------------- MODULE Spec2Model ----------------------------
(***************************************************************************)
(* A model of POCLoader (source/loaders/POCLoader.js): the loader of a     *)
(* point cloud octree's metadata document and the builder of its node      *)
(* index.                                                                  *)
(*                                                                         *)
(* Numbers.  A JavaScript Number is a binary floating point value: the     *)
(* result of + and - is the exact result rounded to the nearest value with *)
(* a fixed number of significant bits (ties to even), and a division by 2  *)
(* is exact.  The model keeps that arithmetic and shortens the significand *)
(* to Precision bits.  A number is written as an integer count of the      *)
(* smallest step the model needs (1/Unit of an input coordinate step), so  *)
(* that every halving the loader performs is exact, as it is for a double. *)
(*                                                                         *)
(* Objects.  Vector3 objects are mutable and shared by reference, so they  *)
(* live in a heap (a sequence of vectors, an address is an index); a Box3  *)
(* is the pair of the addresses of its min and max.                        *)
(***************************************************************************)
EXTENDS Integers, Sequences, FiniteSets, TLC

\* Significant bits of a number of the model.
Precision == 3

\* Deepest level of a node named by a hierarchy list of the model.
MaxLevel == 2

\* Steps of the model's number line per input coordinate step: every box of
\* level <= MaxLevel has coordinates whose halves are whole steps.
Unit == 2 ^ MaxLevel

\* parseInt of a character that is no digit; no digit value is negative.
NaN == -1

Abs(x) == IF x < 0 THEN -x ELSE x

RECURSIVE UlpOf(_, _)
\* The spacing of the representable numbers around magnitude a (from u up).
UlpOf(a, u) == IF a < u * (2 ^ Precision) THEN u ELSE UlpOf(a, 2 * u)

\* The exact value x rounded to the nearest representable number, ties to even.
Round(x) ==
    LET a == Abs(x)
        u == UlpOf(a, 1)
        q == a \div u
        r == a % u
        m == IF 2 * r > u \/ (2 * r = u /\ q % 2 = 1) THEN q + 1 ELSE q
    IN  IF x < 0 THEN -(m * u) ELSE m * u

FAdd(a, b) == Round(a + b)
FSub(a, b) == Round(a - b)
\* a / 2: exact (the grid keeps a even wherever the loader halves).
FHalf(a) == a \div 2
\* A faulty variant, Math.pow(k, 2) for Math.pow(2, k); C2 tells it apart.
FDivPow2_Swapped(a, k) == Round(a \div (k ^ 2))
\* a / Math.pow(2, k): the power is exact, and so is the quotient on the grid.
FDivPow2(a, k) == Round(a \div (2 ^ k))

-----------------------------------------------------------------------------
(* Vector3 and Box3 (three.js), as far as POCLoader uses them.             *)

\* new Vector3(x, y, z): a fresh object holding the value.
Alloc(h, v) == [heap |-> Append(h, v), addr |-> Len(h) + 1]

\* v.clone(): a fresh object holding the value of the vector at a.
clone(h, a) == Alloc(h, h[a])

\* A faulty variant, b - a stored into a; C7 tells it apart.
VecSub_Reversed(h, a, b) ==
    [h EXCEPT ![a] = <<FSub(h[b][1], h[a][1]), FSub(h[b][2], h[a][2]),
                       FSub(h[b][3], h[a][3])>>]

\* a.sub(b): a is changed in place.
VecSub(h, a, b) ==
    [h EXCEPT ![a] = <<FSub(h[a][1], h[b][1]), FSub(h[a][2], h[b][2]),
                       FSub(h[a][3], h[b][3])>>]

\* The value of a box: its corners read from the heap.
BoxVal(h, b) == [min |-> h[b.min], max |-> h[b.max]]

\* index & mask > 0 for the masks 1, 2, 4 (bit k = 0, 1, 2); NaN & mask is 0.
BitSet(index, k) == index # NaN /\ (index \div (2 ^ k)) % 2 = 1

\* POCLoader.createChildAABB(aabb, index): the heap after the call and the
\* box returned.
createChildAABB(h, aabb, index) ==
    LET a1   == clone(h, aabb.min)                     \* min = aabb.min.clone()
        a2   == clone(a1.heap, aabb.max)               \* max = aabb.max.clone()
        a3   == Alloc(a2.heap,                         \* size = max - min
                      <<FSub(h[aabb.max][1], h[aabb.min][1]),
                        FSub(h[aabb.max][2], h[aabb.min][2]),
                        FSub(h[aabb.max][3], h[aabb.min][3])>>)
        size == a3.heap[a3.addr]
        lo   == a3.heap[a1.addr]
        hi   == a3.heap[a2.addr]
        \* bit 0 moves z, bit 1 moves y, bit 2 moves x
        Lo(ax, k) == IF BitSet(index, k) THEN FAdd(lo[ax], FHalf(size[ax])) ELSE lo[ax]
        Hi(ax, k) == IF BitSet(index, k) THEN hi[ax] ELSE FSub(hi[ax], FHalf(size[ax]))
    IN  [heap |-> [a3.heap EXCEPT ![a1.addr] = <<Lo(1, 2), Lo(2, 1), Lo(3, 0)>>,
                                  ![a2.addr] = <<Hi(1, 2), Hi(2, 1), Hi(3, 0)>>],
         box  |-> [min |-> a1.addr, max |-> a2.addr]]


-----------------------------------------------------------------------------
(* The metadata documents and the requests of the model.                   *)

\* An optional value: None where the document holds no such field (undefined
\* in the code), Some(v) where it holds v.
None == << >>
Some(v) == <<v>>

\* A JSON value that is a string, and one that is an array of names.
JString(s) == [type |-> "string", v |-> <<s>>]
JArray(l) == [type |-> "array", v |-> l]
\* A response body that is no JSON document (an error page, a cut file).

\* An input coordinate step c as a number of the model.
N(c) == c * Unit
Vec(x, y, z) == <<N(x), N(y), N(z)>>

Bounds(lo, hi) ==
    [lx |-> lo[1], ly |-> lo[2], lz |-> lo[3], ux |-> hi[1], uy |-> hi[2], uz |-> hi[3]]

\* A box a document can hold: every coordinate is a representable number.
Representable(b) ==
    \A f \in DOMAIN b : Round(b[f]) = b[f]

BoundingBoxes ==
    { b \in { Bounds(Vec(0, 0, 0), Vec(8, 8, 8)),
              Bounds(Vec(1, 2, 0), Vec(14, 6, 4)),
              Bounds(Vec(-2, 1, 1), Vec(6, 5, 3)),
              Bounds(Vec(1, 0, 0), Vec(30, 8, 8)) } : Representable(b) }

\* The tight boxes a document with bounding box b may declare: none, b itself,
\* a box inside b, and boxes that reach outside b.
TightBoundingBoxes(b) ==
    { None, Some(b) } \cup
    { Some(t) : t \in { u \in { Bounds(Vec(1, 2, 1), Vec(6, 5, 3)),
                                Bounds(Vec(0, 0, 0), Vec(10, 8, 8)),
                                Bounds(Vec(-4, 2, 1), Vec(6, 5, 3)) } : Representable(u) } }

\* Node names are strings of characters: "r" and one character per level.
\* A hierarchy list is a list of (name, point count) pairs.
AllHierarchies ==
    { << >>,
      << <<(<<"r">>), 100>> >>,
      << <<(<<"r">>), 100>>, <<(<<"r", "0">>), 10>>, <<(<<"r", "0", "1">>), 3>> >>,
      << <<(<<"r">>), 50>>, <<(<<"r", "3">>), 20>>, <<(<<"r", "5">>), 7>>,
         <<(<<"r", "3", "7">>), 4>>, <<(<<"r", "5", "2">>), 0>> >>,
      << <<(<<"r">>), 9>>, <<(<<"r", "0", "1">>), 3>> >>,
      << <<(<<"r">>), 9>>, <<(<<"r", "0", "1">>), 3>>, <<(<<"r", "0">>), 6>> >>,
      << <<(<<"r">>), 9>>, <<(<<"r", "6">>), 5>>, <<(<<"r", "x">>), 1>>, <<(<<"r", "8">>), 2>> >>,
      << <<(<<"r">>), 80>>, <<(<<"r", "7">>), 40>>, <<(<<"r", "7", "0">>), 20>>,
         <<(<<"r", "7", "0", "1">>), 10>> >> }

\* The level of the deepest node a hierarchy list names.
Depth(h) ==
    IF h = << >> THEN 0
    ELSE LET lens == { Len(h[k][1]) - 1 : k \in 1..Len(h) }
         IN  CHOOSE d \in lens : \A e \in lens : e <= d

\* The hierarchy fields of the documents: none, or a list no deeper than MaxLevel.
Hierarchies == { None } \cup { Some(h) : h \in { g \in AllHierarchies : Depth(g) <= MaxLevel } }

Versions == { <<1, 4>>, <<1, 5>>, <<1, 6>>, <<2, 0>> }

\* octreeDir and url are strings; the model keeps them as lists of pieces.
OctreeDirs == { <<"http", "://host/data">>, <<"data">> }
Urls == { <<"http", "://host/cloud.js">>, <<"http", "://host/other/cloud.js">> }

PointAttributeValues ==
    { JString("LAS"), JString("LAZ"), JArray(<<"POSITION_CARTESIAN", "COLOR_PACKED">>) }

Spacings == { N(1), N(3) }

DocsWith(vs, ds, ss, pas, bs, hs) ==
    UNION { { [version |-> v, octreeDir |-> d, spacing |-> s, hierarchyStepSize |-> 5,
               pointAttributes |-> pa, boundingBox |-> b, tightBoundingBox |-> t,
               projection |-> "proj", scale |-> 1, hierarchy |-> h] :
                 v \in vs, d \in ds, s \in ss, pa \in pas,
                 t \in TightBoundingBoxes(b), h \in hs } : b \in bs }

\* The documents a server may answer with.
Docs == DocsWith(Versions, OctreeDirs, Spacings, PointAttributeValues, BoundingBoxes, Hierarchies)

-----------------------------------------------------------------------------
(* The objects the handlers build.                                         *)

\* x = v; F(x): the value of a statement is computed once, then used.
Bind(v, F(_)) == CHOOSE r \in { F(x) : x \in {v} } : TRUE

\* The fields of the object new added to the object old, or written over its own.
Assign(new, old) ==
    Bind(new, LAMBDA n : Bind(old, LAMBDA o :
        [x \in DOMAIN n \cup DOMAIN o |-> IF x \in DOMAIN n THEN n[x] ELSE o[x]]))

\* o.f = v on an object: the field is added or overwritten.
Set(o, f, v) ==
    Bind(o, LAMBDA p : Bind(v, LAMBDA w :
        [x \in DOMAIN p \cup {f} |-> IF x = f THEN w ELSE p[x]]))

\* new Version(data.version), the version string as its two components.
Version(v) == [versionMajor |-> v[1], versionMinor |-> v[2]]

\* version.upTo(t): the version is not newer than t, compared by component.
upTo(version, t) ==
    \/ version.versionMajor < t[1]
    \/ version.versionMajor = t[1] /\ version.versionMinor <= t[2]

\* parseInt(c) of one character.
ParseInt(c) ==
    CASE c = "0" -> 0 [] c = "1" -> 1 [] c = "2" -> 2 [] c = "3" -> 3 [] c = "4" -> 4
      [] c = "5" -> 5 [] c = "6" -> 6 [] c = "7" -> 7 [] c = "8" -> 8 [] c = "9" -> 9
      [] OTHER -> NaN

\* box.getBoundingSphere(new Sphere()): the centre of the box, and the
\* diagonal whose half length is the radius (an empty box gives zeros).
getBoundingSphere(h, b) ==
    LET lo == h[b.min]
        hi == h[b.max]
    IN  IF \E ax \in 1..3 : hi[ax] < lo[ax]
        THEN [center |-> <<0, 0, 0>>, diagonal |-> <<0, 0, 0>>]
        ELSE [center   |-> <<FHalf(FAdd(lo[1], hi[1])), FHalf(FAdd(lo[2], hi[2])),
                             FHalf(FAdd(lo[3], hi[3]))>>,
              diagonal |-> <<FSub(hi[1], lo[1]), FSub(hi[2], lo[2]), FSub(hi[3], lo[3])>>]

\* new PointCloudOctreeGeometryNode(name, pco, boundingBox).
NewNode(name, boundingBox) ==
    [name |-> name, index |-> ParseInt(name[Len(name)]), boundingBox |-> boundingBox,
     children |-> << >>, parent |-> None, numPoints |-> 0, hasChildren |-> FALSE]

\* parentNode.addChild(node), on the node objects: the child is stored under
\* its index and points back at its parent.
addChild(objs, parent, child) ==
    Bind(objs, LAMBDA o : [o EXCEPT ![parent].children = Set(@, o[child].index, child),
                                     ![child].parent = Some(parent)])

\* new PointAttributes(list): the field layout built from the names.
PointAttributes(pa) == [type |-> "PointAttributes", v |-> pa.v]

LASLAZLoader(version) ==
    [kind |-> "LASLAZLoader", version |-> version, boundingBox |-> None, scale |-> None]
BinaryLoader(version, boundingBox, scale) ==
    [kind |-> "BinaryLoader", version |-> version, boundingBox |-> Some(boundingBox),
     scale |-> Some(scale)]

\* An entry of the record of what a handler did, in order.
Ev(what, name) == [ev |-> what, name |-> name]

-----------------------------------------------------------------------------
(* xhr.onload, statement by statement.  A run of the handler is a record:  *)
(* the vectors (heap) and nodes (objs) allocated, the descriptor pco, the  *)
(* local index nodes (name -> node), what the handler did so far (trace),  *)
(* the calls of the completion callback (calls), and the exception that    *)
(* ended the run, if one did (err).                                        *)

Start(pco) ==
    [heap |-> << >>, objs |-> << >>, pco |-> pco, nodes |-> << >>, trace |-> << >>,
     calls |-> << >>, err |-> None]

Throw(m, e) == [m EXCEPT !.err = Some(e)]

\* The next statements run only when no exception ended the run.
Then(m, F(_)) == Bind(m, LAMBDA x : IF x.err # None THEN x ELSE F(x))

\* pco.octreeDir: absolute when data.octreeDir starts with 'http'.
resolveOctreeDir(url, octreeDir) ==
    IF Len(octreeDir) > 0 /\ octreeDir[1] = "http"
    THEN octreeDir
    ELSE url \o <<"/../">> \o octreeDir

\* Lines 36-50: the scalar fields of the descriptor.
readFields(m, data) ==
    [m EXCEPT !.pco =
        Assign([octreeDir         |-> resolveOctreeDir(m.pco.url, data.octreeDir),
                spacing           |-> data.spacing,
                hierarchyStepSize |-> data.hierarchyStepSize,
                pointAttributes   |-> data.pointAttributes], @)]

\* A faulty variant that moves the minimum only; C3 tells it apart.
subOffset_MinOnly(h, box, offset) == VecSub(h, box.min, offset)

\* box.min.sub(offset); box.max.sub(offset) (lines 65-66 and 68-69).
subOffset(h, box, offset) ==
    Bind(VecSub(h, box.min, offset), LAMBDA h1 : VecSub(h1, box.max, offset))

\* Lines 52-76: the boxes, moved so that the declared minimum is the origin.
normalize(m, data) ==
    LET bb == data.boundingBox
    IN
    Bind(Alloc(m.heap, <<bb.lx, bb.ly, bb.lz>>), LAMBDA min :
    Bind(Alloc(min.heap, <<bb.ux, bb.uy, bb.uz>>), LAMBDA max :
    \* boundingBox = new Box3(min, max) keeps the two vectors themselves;
    \* boundingBox.clone() has new corners holding the same values
    Bind(clone(max.heap, min.addr), LAMBDA tmin :
    Bind(clone(tmin.heap, max.addr), LAMBDA tmax :
    Bind(IF data.tightBoundingBox # None
         THEN LET t == data.tightBoundingBox[1]
              IN  [tmax.heap EXCEPT ![tmin.addr] = <<t.lx, t.ly, t.lz>>,
                                    ![tmax.addr] = <<t.ux, t.uy, t.uz>>]
         ELSE tmax.heap, LAMBDA h1 :
    Bind(clone(h1, min.addr), LAMBDA offset :                   \* offset = min.clone()
    LET boundingBox == [min |-> min.addr, max |-> max.addr]
        tightBoundingBox == [min |-> tmin.addr, max |-> tmax.addr]
    IN
    Bind(subOffset(offset.heap, boundingBox, offset.addr), LAMBDA h3 :
    Bind(subOffset(h3, tightBoundingBox, offset.addr), LAMBDA h5 :
         [m EXCEPT !.heap = h5,
                  !.pco =
                      Assign([projection          |-> data.projection,
                              boundingBox         |-> boundingBox,
                              tightBoundingBox    |-> tightBoundingBox,
                              boundingSphere      |-> getBoundingSphere(h5, boundingBox),
                              tightBoundingSphere |-> getBoundingSphere(h5, tightBoundingBox),
                              offset              |-> offset.addr], @)]
    ))))))))

\* A faulty variant that knows the LAS tag only; C4 tells it apart.
isLasLaz_OnlyLAS(pointAttributes) == pointAttributes = JString("LAS")

\* Line 79: the document names the LAS or the LAZ format.
isLasLaz(pointAttributes) ==
    pointAttributes = JString("LAS") \/ pointAttributes = JString("LAZ")

\* Lines 78-87: the loader of the point payloads.
selectLoader(m, data) ==
    IF isLasLaz(data.pointAttributes)
    THEN [m EXCEPT !.pco = Set(@, "loader", LASLAZLoader(data.version)),
                   !.trace = Append(@, Ev("loader", << >>))]
    ELSE [m EXCEPT !.pco =
                       Assign([loader |-> BinaryLoader(data.version, m.pco.boundingBox,
                                                       data.scale),
                               pointAttributes |-> PointAttributes(m.pco.pointAttributes)], @),
                   !.trace = Append(@, Ev("loader", << >>))]

\* Lines 89-100: the root node, its load triggered, then indexed.
buildRoot(m, data) ==
    LET name    == <<"r">>
        version == Version(data.version)
        root1   == Assign([level |-> 0, hasChildren |-> TRUE, spacing |-> m.pco.spacing],
                          NewNode(name, m.pco.boundingBox))
        addr    == Len(m.objs) + 1
    IN  IF upTo(version, <<1, 5>>) /\ (data.hierarchy = None \/ Len(data.hierarchy[1]) = 0)
        THEN \* data.hierarchy[0][1] of no list, or of an empty one
             [Throw(m, "TypeError") EXCEPT !.objs  = Append(@, root1),
                                           !.trace = Append(@, Ev("root", name))]
        ELSE LET numPoints == IF upTo(version, <<1, 5>>) THEN data.hierarchy[1][1][2] ELSE 0
             IN  [m EXCEPT !.objs  = Append(@, Set(root1, "numPoints", numPoints)),
                           !.pco   = Set(@, "root", addr),
                           !.nodes = Set(@, name, addr),
                           !.trace = @ \o <<Ev("root", name), Ev("root.load", name),
                                            Ev("index", name)>>]

RECURSIVE buildHierarchy(_, _, _)
\* Lines 105-121: the loop over data.hierarchy, from entry i (the first is 1).
buildHierarchy(m, hierarchy, i) ==
    IF i > Len(hierarchy) THEN m
    ELSE
    LET name       == hierarchy[i][1]
        numPoints  == hierarchy[i][2]
        index      == ParseInt(name[Len(name)])
        parentName == SubSeq(name, 1, Len(name) - 1)
        level      == Len(name) - 1
    IN  IF parentName \notin DOMAIN m.nodes
        THEN Throw(m, "TypeError")          \* parentNode.boundingBox of undefined
        ELSE
        LET parentNode == m.nodes[parentName] IN
        Bind(createChildAABB(m.heap, m.objs[parentNode].boundingBox, index), LAMBDA child :
        LET node == Assign([level |-> level, numPoints |-> numPoints,
                            spacing |-> FDivPow2(m.pco.spacing, level)],
                           NewNode(name, child.box))
            addr == Len(m.objs) + 1
        IN  Bind([m EXCEPT !.heap  = child.heap,
                           !.objs  = addChild(Append(@, node), parentNode, addr),
                           !.nodes = Set(@, name, addr),
                           !.trace = @ \o <<Ev("node", name), Ev("index", name)>>],
                 LAMBDA m2 : buildHierarchy(m2, hierarchy, i + 1)))

\* A faulty variant that reads the hierarchy list whatever the version; C9
\* tells it apart.
loadHierarchy_AnyVersion(m, data) ==
    IF data.hierarchy = None THEN m ELSE buildHierarchy(m, data.hierarchy[1], 2)

\* Lines 103-122.
loadHierarchy(m, data) ==
    IF upTo(Version(data.version), <<1, 4>>)
    THEN buildHierarchy(m, data.hierarchy[1], 2)
    ELSE m

\* A faulty variant that runs the callback before the index is stored; C6
\* tells it apart.
finish_CallbackFirst(m) ==
    [m EXCEPT !.calls = Append(@, Some(m.pco)),
              !.trace = Append(@, Ev("callback", << >>)),
              !.pco = Set(m.pco, "nodes", m.nodes)]

\* Lines 123-125: the index is stored and the completion callback runs.
finish(m) ==
    LET pco == Set(m.pco, "nodes", m.nodes)
    IN  [m EXCEPT !.pco = pco,
                  !.calls = Append(@, Some(pco)),
                  !.trace = Append(@, Ev("callback", << >>))]

\* A faulty variant that builds the tree before it selects the loader; C8
\* tells it apart.
onload_TreeFirst(pco, body) ==
    IF body = None
    THEN Throw(Start(pco), "SyntaxError")
    ELSE LET data == body[1] IN
         Then(Then(Then(Then(Then(Start(pco),
             LAMBDA m : readFields(m, data)),
             LAMBDA m : normalize(m, data)),
             LAMBDA m : buildRoot(m, data)),
             LAMBDA m : loadHierarchy(m, data)),
             LAMBDA m : Then(selectLoader(m, data), LAMBDA m2 : finish(m2)))

\* xhr.onload (lines 33-126) on the response body: the run it makes.
onload(pco, body) ==
    IF body = None
    THEN Throw(Start(pco), "SyntaxError")              \* JSON.parse
    ELSE LET data == body[1] IN
         Then(Then(Then(Then(Then(Start(pco),
             LAMBDA m : readFields(m, data)),
             LAMBDA m : normalize(m, data)),
             LAMBDA m : selectLoader(m, data)),
             LAMBDA m : buildRoot(m, data)),
             LAMBDA m : Then(loadHierarchy(m, data), LAMBDA m2 : finish(m2)))

-----------------------------------------------------------------------------
(* The state: the load invocations, and a caller of createChildAABB.       *)

\* The invocations of load the model follows.
LoadIds == { "a", "b" }

VARIABLES
    phase,            \* per load: "idle", "fetching", "done", "threw", "failed"
    pco,              \* per load: the descriptor (a field is there once assigned)
    heap,             \* per load: the Vector3 objects
    objs,             \* per load: the node objects
    trace,            \* per load: what its handlers did, in order
    calls,            \* per load: the arguments of the completion callback's calls
    error,            \* per load: the exception that left its handler, if any
    response,         \* per load: the response the request ended with, if any
    rootLoaded,       \* per load: the root's point payload has arrived
    numNodesLoading,  \* Global.numNodesLoading
    splitHeap,        \* the caller of createChildAABB: its Vector3 objects,
    splitBox,         \*   the parent box it holds,
    splitInput,       \*   the value that box was built with,
    splitChildren     \*   and the child boxes it has computed so far (0, 1, ...)

loadVars == <<phase, pco, heap, objs, trace, calls, error, response, rootLoaded,
              numNodesLoading>>
splitVars == <<splitHeap, splitBox, splitInput, splitChildren>>
vars == <<loadVars, splitVars>>

\* What a request can end with when the server answers: a document, a body
\* that is no JSON, or an HTTP error status with an error page.
Responses(docs) ==
    { [status |-> 200, body |-> Some(d)] : d \in docs } \cup
    { [status |-> 200, body |-> None], [status |-> 404, body |-> None] }

InitLoads ==
    /\ phase = [i \in LoadIds |-> "idle"]
    /\ pco = [i \in LoadIds |-> << >>]
    /\ heap = [i \in LoadIds |-> << >>]
    /\ objs = [i \in LoadIds |-> << >>]
    /\ trace = [i \in LoadIds |-> << >>]
    /\ calls = [i \in LoadIds |-> << >>]
    /\ error = [i \in LoadIds |-> None]
    /\ response = [i \in LoadIds |-> None]
    /\ rootLoaded = [i \in LoadIds |-> FALSE]
    /\ numNodesLoading = 0

\* POCLoader.load(url, callback) up to xhr.send: the descriptor holds the url
\* and the request is out.
Load(i, url) ==
    /\ phase[i] = "idle"
    /\ phase' = [phase EXCEPT ![i] = "fetching"]
    /\ pco' = [pco EXCEPT ![i] = [url |-> url]]
    /\ UNCHANGED <<heap, objs, trace, calls, error, response, rootLoaded,
                   numNodesLoading, splitVars>>

\* xhr.onload: the server answered (with any status, with one of the bodies
\* of rs); the handler runs to its end or to an exception.
OnLoad(i, rs) ==
    /\ phase[i] = "fetching"
    /\ \E r \in rs :
         /\ \E m \in { onload(pco[i], r.body) } :
                /\ phase' = [phase EXCEPT ![i] = IF m.err = None THEN "done" ELSE "threw"]
                /\ pco' = [pco EXCEPT ![i] = m.pco]
                /\ heap' = [heap EXCEPT ![i] = m.heap]
                /\ objs' = [objs EXCEPT ![i] = m.objs]
                /\ trace' = [trace EXCEPT ![i] = m.trace]
                /\ calls' = [calls EXCEPT ![i] = m.calls]
                /\ error' = [error EXCEPT ![i] = m.err]
         /\ response' = [response EXCEPT ![i] = Some(r)]
    /\ UNCHANGED <<rootLoaded, numNodesLoading, splitVars>>

\* xhr.onerror: the request failed below HTTP (no answer at all).
OnError(i) ==
    /\ phase[i] = "fetching"
    /\ phase' = [phase EXCEPT ![i] = "failed"]
    /\ numNodesLoading' = numNodesLoading - 1
    /\ trace' = [trace EXCEPT ![i] = @ \o <<Ev("log", << >>), Ev("callback", << >>)>>]
    /\ calls' = [calls EXCEPT ![i] = Append(@, None)]
    /\ UNCHANGED <<pco, heap, objs, error, response, rootLoaded, splitVars>>

\* The load that pco.root.load() started ends: the root's points are there.
RootLoaded(i) ==
    /\ \E k \in 1..Len(trace[i]) : trace[i][k].ev = "root.load"
    /\ ~rootLoaded[i]
    /\ rootLoaded' = [rootLoaded EXCEPT ![i] = TRUE]
    /\ UNCHANGED <<phase, pco, heap, objs, trace, calls, error, response,
                   numNodesLoading, splitVars>>

Init ==
    /\ InitLoads
    /\ splitHeap = << >>
    /\ splitBox = None
    /\ splitInput = None
    /\ splitChildren = << >>

\* One load, of any document.
Next ==
    \/ \E u \in Urls : Load("a", u)
    \/ OnLoad("a", Responses(Docs))
    \/ OnError("a")
    \/ RootLoaded("a")

Spec == Init /\ [][Next]_vars

-----------------------------------------------------------------------------
(* A caller of createChildAABB: it holds a box and computes the children   *)
(* 0, 1, ..., 7 of it, one call after the other.                           *)

\* The coordinates (in input steps) the caller's box is drawn from.
SplitCoords == { c \in { 0, 1, 6, 14, 30 } : Round(N(c)) = N(c) }

InitSplit ==
    /\ InitLoads
    /\ \E lo, hi \in { <<N(x), N(y), N(z)>> : x, y, z \in SplitCoords } :
         /\ \A ax \in 1..3 : lo[ax] < hi[ax]
         /\ splitHeap = <<lo, hi>>
         /\ splitBox = Some([min |-> 1, max |-> 2])
         /\ splitInput = Some([min |-> lo, max |-> hi])
         /\ splitChildren = << >>

\* POCLoader.createChildAABB(box, k) for the next index k.
Split ==
    /\ splitBox # None
    /\ Len(splitChildren) < 8
    /\ \E r \in { createChildAABB(splitHeap, splitBox[1], Len(splitChildren)) } :
         /\ splitHeap' = r.heap
         /\ splitChildren' = Append(splitChildren, r.box)
    /\ UNCHANGED <<splitBox, splitInput, loadVars>>

NextSplit == Split

SpecSplit == InitSplit /\ [][NextSplit]_vars

-----------------------------------------------------------------------------
(* C1: the children of a box.                                              *)

\* The child boxes computed so far, as values; child i is SplitChild(i).
SplitChild(i) == BoxVal(splitHeap, splitChildren[i + 1])

Volume(b) == (b.max[1] - b.min[1]) * (b.max[2] - b.min[2]) * (b.max[3] - b.min[3])

\* Two boxes share at most a face: some axis separates them.
Apart(a, b) == \E ax \in 1..3 : a.max[ax] <= b.min[ax] \/ b.max[ax] <= a.min[ax]

Inside(a, b) == \A ax \in 1..3 : b.min[ax] <= a.min[ax] /\ a.max[ax] <= b.max[ax]

\* Child i takes the upper half along the axis when the axis' bit of i is set
\* (bit 0: z, bit 1: y, bit 2: x) and the lower half when it is clear, and
\* its extent is half of the parent's.
HalfOf(c, p, i) ==
    \A ax \in 1..3 :
        /\ 2 * (c.max[ax] - c.min[ax]) = p.max[ax] - p.min[ax]
        /\ IF BitSet(i, 3 - ax) THEN c.max[ax] = p.max[ax] ELSE c.min[ax] = p.min[ax]

\* C1: once the 8 children of a box P are computed, each has exactly half of
\* P's extent on each axis on the side its index selects, the 8 boxes are
\* pairwise non-overlapping, their union is exactly P (they lie inside P and
\* their volumes add up to P's), and P itself is unchanged.
C1_ChildrenTileParent ==
    (splitBox # None /\ Len(splitChildren) = 8) =>
        LET P == splitInput[1]
        IN  /\ BoxVal(splitHeap, splitBox[1]) = P
            /\ \A i \in 0..7 : HalfOf(SplitChild(i), P, i) /\ Inside(SplitChild(i), P)
            /\ \A i, j \in 0..7 : i # j => Apart(SplitChild(i), SplitChild(j))
            /\ Volume(SplitChild(0)) + Volume(SplitChild(1)) + Volume(SplitChild(2))
               + Volume(SplitChild(3)) + Volume(SplitChild(4)) + Volume(SplitChild(5))
               + Volume(SplitChild(6)) + Volume(SplitChild(7)) = Volume(P)

-----------------------------------------------------------------------------
(* Two loads of different datasets, their handlers interleaved.            *)

ConcDocs ==
    DocsWith({ <<1, 4>>, <<1, 6>> }, { <<"data">> }, { N(1) }, { JString("LAS") },
             { Bounds(Vec(0, 0, 0), Vec(8, 8, 8)) },
             { Some(<< <<(<<"r">>), 100>>, <<(<<"r", "0">>), 10>> >>) })

NextConc ==
    \E i \in LoadIds :
        \/ \E u \in Urls :
             /\ \A j \in LoadIds \ {i} :
                    IF phase[j] = "idle" THEN TRUE ELSE pco[j].url # u
             /\ Load(i, u)
        \/ OnLoad(i, Responses(ConcDocs))
        \/ OnError(i)
        \/ RootLoaded(i)

SpecConc == Init /\ [][NextConc]_vars

-----------------------------------------------------------------------------
(* What the claims speak of.                                               *)

Done(i) == phase[i] = "done"

\* The document load i received (defined once its handler ran on a document).
Data(i) == response[i][1].body[1]

\* The request of load i failed: below HTTP, or with an HTTP error status.
FetchFailed(i) ==
    \/ phase[i] = "failed"
    \/ response[i] # None /\ response[i][1].status # 200

Legacy(i) == upTo(Version(Data(i).version), <<1, 4>>)

\* The node the index of descriptor p names s, and a box as a value.
NodeAt(i, p, s) == objs[i][p.nodes[s]]
BoxOf(i, b) == BoxVal(heap[i], b)

Corner(b, which) ==
    IF which = "min" THEN <<b.lx, b.ly, b.lz>> ELSE <<b.ux, b.uy, b.uz>>

Positions(i, what) == { k \in 1..Len(trace[i]) : trace[i][k].ev = what }

\* Some entry after the first names a node whose parent no earlier entry names.
MissingParent(h) ==
    \E k \in 2..Len(h) :
        SubSeq(h[k][1], 1, Len(h[k][1]) - 1)
            \notin { <<"r">> } \cup { h[j][1] : j \in 2..(k - 1) }

-----------------------------------------------------------------------------
\* C2: after a successful load of a legacy document (version <= 1.4) the node
\* index holds the root and one node per further hierarchy entry; the node of
\* an entry named s has level Len(s) - 1, spacing = root spacing / 2^level,
\* the entry's point count, the box createChildAABB gives for its parent's
\* box and the last digit of s, and is attached to that parent; the root has
\* level 0, hasChildren, the document's spacing and the first entry's count.
C2_LegacyTree ==
    \A i \in LoadIds : (Done(i) /\ Legacy(i)) =>
        LET d == Data(i)
            h == d.hierarchy[1]
            p == pco[i]
            root == objs[i][p.root]
        IN  /\ DOMAIN p.nodes = { <<"r">> } \cup { h[k][1] : k \in 2..Len(h) }
            /\ Cardinality(DOMAIN p.nodes) = Len(h)
            /\ p.nodes[<<"r">>] = p.root
            /\ root.level = 0 /\ root.hasChildren /\ root.spacing = d.spacing
            /\ root.numPoints = h[1][2]
            /\ \A k \in 2..Len(h) :
                 LET s == h[k][1]
                     n == NodeAt(i, p, s)
                     parentName == SubSeq(s, 1, Len(s) - 1)
                     parent == NodeAt(i, p, parentName)
                     digit == ParseInt(s[Len(s)])
                     split == createChildAABB(heap[i], parent.boundingBox, digit)
                 IN  /\ n.name = s
                     /\ n.level = Len(s) - 1
                     /\ n.spacing * (2 ^ n.level) = d.spacing
                     /\ n.numPoints = h[k][2]
                     /\ BoxOf(i, n.boundingBox) = BoxVal(split.heap, split.box)
                     /\ n.parent = Some(p.nodes[parentName])
                     /\ digit \in DOMAIN parent.children
                     /\ parent.children[digit] = p.nodes[s]

\* A legacy load that built a node of level 2.
C2_Witness ==
    \E i \in LoadIds :
        /\ Done(i) /\ Legacy(i)
        /\ \E s \in DOMAIN pco[i].nodes : Len(s) = 3 /\ NodeAt(i, pco[i], s).numPoints > 0

-----------------------------------------------------------------------------
\* C3, as claimed: offset = B.min, and boundingBox and tightBoundingBox are
\* the declared boxes with offset subtracted exactly, so that adding offset
\* back gives the declared corners; with no tight box declared,
\* tightBoundingBox equals boundingBox and is a distinct object.
C3_NormalizationExact ==
    \A i \in LoadIds : Done(i) =>
        LET d == Data(i)
            off == heap[i][pco[i].offset]
            bb == BoxOf(i, pco[i].boundingBox)
            tb == BoxOf(i, pco[i].tightBoundingBox)
            T == IF d.tightBoundingBox = None THEN d.boundingBox ELSE d.tightBoundingBox[1]
        IN  /\ off = Corner(d.boundingBox, "min")
            /\ \A ax \in 1..3 :
                 /\ bb.min[ax] = 0
                 /\ bb.min[ax] + off[ax] = Corner(d.boundingBox, "min")[ax]
                 /\ bb.max[ax] + off[ax] = Corner(d.boundingBox, "max")[ax]
                 /\ tb.min[ax] + off[ax] = Corner(T, "min")[ax]
                 /\ tb.max[ax] + off[ax] = Corner(T, "max")[ax]
            /\ d.tightBoundingBox = None =>
                 /\ tb = bb
                 /\ { pco[i].tightBoundingBox.min, pco[i].tightBoundingBox.max }
                      \cap { pco[i].boundingBox.min, pco[i].boundingBox.max } = { }

\* C3, amended: offset = B.min and boundingBox.min is the origin (so
\* boundingBox.min + offset = B.min); every other corner is the declared
\* coordinate minus offset rounded to the nearest number, so adding offset
\* back gives the declared coordinate where that difference is a number; with
\* no tight box declared, tightBoundingBox equals boundingBox and is a
\* distinct object.
C3_NormalizationRounded ==
    \A i \in LoadIds : Done(i) =>
        LET d == Data(i)
            off == heap[i][pco[i].offset]
            bb == BoxOf(i, pco[i].boundingBox)
            tb == BoxOf(i, pco[i].tightBoundingBox)
            T == IF d.tightBoundingBox = None THEN d.boundingBox ELSE d.tightBoundingBox[1]
            Exact(x, o) == Round(x - o) = x - o
        IN  /\ off = Corner(d.boundingBox, "min")
            /\ \A ax \in 1..3 :
                 /\ bb.min[ax] = 0
                 /\ FAdd(bb.min[ax], off[ax]) = Corner(d.boundingBox, "min")[ax]
                 /\ bb.max[ax] = FSub(Corner(d.boundingBox, "max")[ax], off[ax])
                 /\ tb.min[ax] = FSub(Corner(T, "min")[ax], off[ax])
                 /\ tb.max[ax] = FSub(Corner(T, "max")[ax], off[ax])
                 /\ Exact(Corner(d.boundingBox, "max")[ax], off[ax])
                      => bb.max[ax] + off[ax] = Corner(d.boundingBox, "max")[ax]
                 /\ Exact(Corner(T, "min")[ax], off[ax])
                      => tb.min[ax] + off[ax] = Corner(T, "min")[ax]
                 /\ Exact(Corner(T, "max")[ax], off[ax])
                      => tb.max[ax] + off[ax] = Corner(T, "max")[ax]
            /\ d.tightBoundingBox = None =>
                 /\ tb = bb
                 /\ { pco[i].tightBoundingBox.min, pco[i].tightBoundingBox.max }
                      \cap { pco[i].boundingBox.min, pco[i].boundingBox.max } = { }

\* A load of a document with no tight box whose boundingBox.max was rounded.
C3_Witness ==
    \E i \in LoadIds :
        /\ Done(i)
        /\ Data(i).tightBoundingBox = None
        /\ \E ax \in 1..3 :
             BoxOf(i, pco[i].boundingBox).max[ax] + heap[i][pco[i].offset][ax]
                 # Corner(Data(i).boundingBox, "max")[ax]

-----------------------------------------------------------------------------
\* C4: a successful load assigns the descriptor's loader once, by the
\* document's pointAttributes alone: for "LAS" or "LAZ" the LAS/LAZ loader,
\* and pointAttributes stays the tag; for any other value the binary loader
\* built with the version, the normalized bounding box and the scale, and
\* pointAttributes becomes the expanded PointAttributes object.
C4_LoaderSelection ==
    \A i \in LoadIds : Done(i) =>
        LET d == Data(i)
            p == pco[i]
        IN  /\ Cardinality(Positions(i, "loader")) = 1
            /\ d.pointAttributes \in { JString("LAS"), JString("LAZ") } =>
                 /\ p.loader.kind = "LASLAZLoader"
                 /\ p.loader.version = d.version
                 /\ p.pointAttributes = d.pointAttributes
            /\ d.pointAttributes \notin { JString("LAS"), JString("LAZ") } =>
                 /\ p.loader.kind = "BinaryLoader"
                 /\ p.loader.version = d.version
                 /\ p.loader.boundingBox = Some(p.boundingBox)
                 /\ BoxOf(i, p.boundingBox).min = <<0, 0, 0>>
                 /\ p.loader.scale = Some(d.scale)
                 /\ p.pointAttributes.type = "PointAttributes"
                 /\ p.pointAttributes.v = d.pointAttributes.v

\* A load that chose the LAS/LAZ loader for the tag "LAZ".
C4_Witness ==
    \E i \in LoadIds :
        /\ Done(i)
        /\ Data(i).pointAttributes = JString("LAZ")
        /\ pco[i].loader.kind = "LASLAZLoader"

-----------------------------------------------------------------------------
\* C5: whenever the fetch of the document fails (below HTTP or with an HTTP
\* error status), the completion callback is invoked exactly once, with no
\* descriptor, and no exception leaves a handler.
C5_FetchFailureReported ==
    \A i \in LoadIds : FetchFailed(i) => (calls[i] = <<None>> /\ error[i] = None)

-----------------------------------------------------------------------------
\* The descriptor p of load i is complete: directory, boxes, spheres, offset,
\* loader, root and node index are set, and (legacy) every entry is indexed.
Complete(i, p) ==
    /\ { "octreeDir", "boundingBox", "tightBoundingBox", "boundingSphere",
         "tightBoundingSphere", "offset", "loader", "root", "nodes" } \subseteq DOMAIN p
    /\ Legacy(i) => \A k \in 2..Len(Data(i).hierarchy[1]) :
                        Data(i).hierarchy[1][k][1] \in DOMAIN p.nodes

\* C6: the completion callback receives a complete descriptor or none; and
\* a legacy hierarchy entry whose parent is not yet indexed ends the handler
\* with an exception, without any call of the callback.
C6_CompleteOrAbsent ==
    \A i \in LoadIds :
        /\ \A k \in 1..Len(calls[i]) : calls[i][k] = None \/ Complete(i, calls[i][k][1])
        /\ Len(calls[i]) <= 1
        /\ ( /\ response[i] # None
             /\ response[i][1].body # None
             /\ Data(i).hierarchy # None
             /\ Legacy(i)
             /\ MissingParent(Data(i).hierarchy[1]) )
           => (phase[i] = "threw" /\ error[i] = Some("TypeError") /\ calls[i] = << >>)

\* A legacy load that stopped at an entry without parent, after it had
\* indexed the root and started the root's load.
C6_Witness ==
    \E i \in LoadIds :
        /\ phase[i] = "threw"
        /\ response[i][1].body # None
        /\ Data(i).hierarchy # None
        /\ Legacy(i)
        /\ MissingParent(Data(i).hierarchy[1])
        /\ Positions(i, "root.load") # { }
        /\ calls[i] = << >>

-----------------------------------------------------------------------------
Contained(a, b) == \A ax \in 1..3 : b.min[ax] <= a.min[ax] /\ a.max[ax] <= b.max[ax]

\* C7, as claimed: in every descriptor handed to the callback,
\* tightBoundingBox lies inside boundingBox.
C7_TightInsideAlways ==
    \A i \in LoadIds : Done(i) =>
        Contained(BoxOf(i, pco[i].tightBoundingBox), BoxOf(i, pco[i].boundingBox))

\* The declared tight box lies inside the declared bounding box.
DeclaredInside(d) ==
    LET t == d.tightBoundingBox[1]
    IN  Contained([min |-> Corner(t, "min"), max |-> Corner(t, "max")],
                  [min |-> Corner(d.boundingBox, "min"), max |-> Corner(d.boundingBox, "max")])

\* C7, amended: tightBoundingBox lies inside boundingBox when the document
\* declares no tight box or one that lies inside its declared bounding box.
C7_TightInsideWhenDeclaredInside ==
    \A i \in LoadIds :
        (Done(i) /\ (Data(i).tightBoundingBox = None \/ DeclaredInside(Data(i)))) =>
            Contained(BoxOf(i, pco[i].tightBoundingBox), BoxOf(i, pco[i].boundingBox))

\* A load of a document whose tight box is declared, inside the bounding box
\* and smaller than it.
C7_Witness ==
    \E i \in LoadIds :
        /\ Done(i)
        /\ Data(i).tightBoundingBox # None
        /\ DeclaredInside(Data(i))
        /\ Data(i).tightBoundingBox[1] # Data(i).boundingBox

-----------------------------------------------------------------------------
Before(i, a, b) == \A x \in Positions(i, a) : \A y \in Positions(i, b) : x < y

-----------------------------------------------------------------------------
\* C9, as claimed: for a version above 1.4 a successful load builds only the
\* root (the index holds the root alone and the root has no children), and
\* the root's numPoints is the first hierarchy entry's count whenever the
\* document has a hierarchy list.
C9_CurrentFormatAsClaimed ==
    \A i \in LoadIds : (Done(i) /\ ~Legacy(i)) =>
        LET root == objs[i][pco[i].root]
            d == Data(i)
        IN  /\ DOMAIN pco[i].nodes = { <<"r">> }
            /\ Len(objs[i]) = 1
            /\ DOMAIN root.children = { }
            /\ (d.hierarchy # None /\ Len(d.hierarchy[1]) > 0)
                 => root.numPoints = d.hierarchy[1][1][2]

\* C9, amended: for a version above 1.4 a successful load builds only the
\* root, and the root's numPoints is the first hierarchy entry's count when
\* the version is 1.5 (or less), and 0 for every later version, whatever
\* the hierarchy list holds.
C9_CurrentFormatInCode ==
    \A i \in LoadIds : (Done(i) /\ ~Legacy(i)) =>
        LET root == objs[i][pco[i].root]
            d == Data(i)
        IN  /\ DOMAIN pco[i].nodes = { <<"r">> }
            /\ Len(objs[i]) = 1
            /\ DOMAIN root.children = { }
            /\ root.numPoints = IF upTo(Version(d.version), <<1, 5>>)
                                THEN d.hierarchy[1][1][2] ELSE 0

\* A load of a version 1.5 document whose hierarchy list names more nodes.
C9_Witness ==
    \E i \in LoadIds :
        /\ Done(i)
        /\ Data(i).version = <<1, 5>>
        /\ Len(Data(i).hierarchy[1]) >= 3
        /\ objs[i][pco[i].root].numPoints > 0

-----------------------------------------------------------------------------
\* C10: concurrent loads share no mutable state: what a load leaves behind
\* is what it leaves when it runs alone; Global.numNodesLoading then is 0, or
\* -1 when the load's own fetch failed.
C10_LoadsIsolated ==
    \A i \in LoadIds :
        phase[i] \in { "done", "threw", "failed" } =>
            numNodesLoading = IF phase[i] = "failed" THEN -1 ELSE 0

=============================================================================
